---- MODULE Spec2Model ----
(***************************************************************************)
(* The identity store User resource adapter (resourceUserCreate / Read /   *)
(* Update / Delete, the expand and flatten converters and the identifier   *)
(* codec) as a state machine.                                              *)
(*                                                                         *)
(* Representation:                                                         *)
(*   - an identifier-like Go string (d.Id(), identity_store_id, user_id)   *)
(*     is a sequence of one-character strings, so that strings.Split and   *)
(*     fmt.Sprintf are computed character by character;                    *)
(*   - every other Go string is a TLA+ string, "" being the empty string;  *)
(*   - a Go *string is Nil (<<>>) or Ptr(s) (<<s>>);                       *)
(*   - a map[string]interface{} is a function whose DOMAIN is the set of   *)
(*     keys present;                                                       *)
(*   - an interface{} handed to document.NewLazyDocument is a record       *)
(*     tagged with its dynamic type.                                       *)
(***************************************************************************)
EXTENDS Integers, Sequences, FiniteSets, TLC

VARIABLES
    id,        \* d.Id(): the composite identifier the host tracks
    isNew,     \* d.IsNewResource()
    st,        \* the resource's state fields (what d.Set wrote / d.Get reads)
    remote,    \* the identity store: user id -> stored user, or NoUser
    nextUser,  \* how many user ids the identity store has assigned
    calls,     \* the remote calls the last handler issued, in order
    ret,       \* what the last handler returned
    last,      \* the last handler invoked, with the inputs it was given
    pc,        \* position of the converter pipelines (pure-function specs)
    inp,       \* input of the converter pipeline
    out        \* output of the converter pipeline

vars == <<id, isNew, st, remote, nextUser, calls, ret, last, pc, inp, out>>
lifeVars == <<id, isNew, st, remote, nextUser, calls, ret, last>>
pureVars == <<pc, inp, out>>

----------------------------------------------------------------------------
(* Bounds *)

\* longest identity_store_id / user_id drawn for the identifier codec
MaxIdLen == 3
\* how many users the identity store assigns an id to
MaxUsers == 1
\* how many tracked attributes one planned update changes (the plan that
\* changes all of them is drawn as well)
MaxChanged == 3

----------------------------------------------------------------------------
(* Go strings and pointers *)

Nil == <<>>
Ptr(s) == <<s>>

\* aws.ToString: the empty string for a nil pointer
awsToString(p) == IF p = Nil THEN "" ELSE p[1]

\* aws.ToString on a pointer to an identifier-like string
ToIdString(p) == IF p = Nil THEN <<>> ELSE p[1]

\* the nil error
ErrNil == "<nil>"

Chars == {"d", "u", "/"}
Sep == "/"

RECURSIVE StrOfLen(_, _)
StrOfLen(alphabet, n) ==
    IF n = 0 THEN {<<>>}
    ELSE {<<c>> \o s : c \in alphabet, s \in StrOfLen(alphabet, n - 1)}

\* the non-empty strings over alphabet of at most n characters
NonEmptyStr(alphabet, n) == UNION {StrOfLen(alphabet, k) : k \in 1..n}

\* the index of the first "/" of s, 0 when it holds none
RECURSIVE IndexOfSep(_, _)
IndexOfSep(s, i) ==
    IF i > Len(s) THEN 0
    ELSE IF s[i] = Sep THEN i ELSE IndexOfSep(s, i + 1)

\* strings.Split(s, "/"): always at least one part; "" splits into [""]
RECURSIVE SplitAt(_, _)
SplitAt(s, i) ==
    IF i = 0 THEN <<s>>
    ELSE <<SubSeq(s, 1, i - 1)>>
         \o SplitAt(SubSeq(s, i + 1, Len(s)),
                    IndexOfSep(SubSeq(s, i + 1, Len(s)), 1))

Split(s) == SplitAt(s, IndexOfSep(s, 1))

\* fmt.Sprintf("%s/%s", a, b)
Sprintf(a, b) == a \o <<Sep>> \o b

----------------------------------------------------------------------------
(* Identifier codec *)

ErrParse == "expected a resource id in the form: identity-store-id/user-id"

\* if len(parts) != 2 || parts[0] == "" || parts[1] == "" { err = ... }
PartsAccepted(parts) == Len(parts) = 2 /\ parts[1] # <<>> /\ parts[2] # <<>>

ParseParts(parts) ==
    IF PartsAccepted(parts)
    THEN [identityStoreId |-> parts[1], userId |-> parts[2], err |-> ErrNil]
    ELSE [identityStoreId |-> <<>>, userId |-> <<>>, err |-> ErrParse]

resourceUserParseID(s) == ParseParts(Split(s))

----------------------------------------------------------------------------
(* Expand / flatten converters *)

\* a nil map[string]interface{} (an empty, non-nil map is <<>>)
NilMap == [nil |-> TRUE]

\* a string field that is set whenever the key is present, empty or not
StringFieldKeepEmpty(tfMap, k) ==
    IF k \in DOMAIN tfMap THEN Ptr(tfMap[k]) ELSE Nil

\* if v, ok := tfMap[k].(string); ok && v != "" { field = aws.String(v) }
StringField(tfMap, k) ==
    IF k \in DOMAIN tfMap /\ tfMap[k] # "" THEN Ptr(tfMap[k]) ELSE Nil

\* a flatten step that writes the key even for a nil field
PutAlways(k, p) == (k :> awsToString(p))

\* if v := apiObject.F; v != nil { m[k] = aws.ToString(v) }
Put(k, p) == IF p # Nil THEN (k :> awsToString(p)) ELSE <<>>

flattenAddress(apiObject) ==
    IF apiObject = Nil THEN NilMap
    ELSE LET a == apiObject[1]
         IN  Put("country", a.Country)
             @@ Put("formatted", a.Formatted)
             @@ Put("locality", a.Locality)
             @@ Put("postal_code", a.PostalCode)
             @@ ("primary" :> a.Primary)
             @@ Put("region", a.Region)
             @@ Put("street_address", a.StreetAddress)
             @@ Put("type", a.Type)

expandAddress(tfMap) ==
    IF tfMap = NilMap THEN Nil
    ELSE Ptr([Country       |-> StringField(tfMap, "country"),
              Formatted     |-> StringField(tfMap, "formatted"),
              Locality      |-> StringField(tfMap, "locality"),
              PostalCode    |-> StringField(tfMap, "postal_code"),
              Primary       |-> tfMap["primary"],
              Region        |-> StringField(tfMap, "region"),
              StreetAddress |-> StringField(tfMap, "street_address"),
              Type          |-> StringField(tfMap, "type")])

flattenName(apiObject) ==
    IF apiObject = Nil THEN NilMap
    ELSE LET a == apiObject[1]
         IN  Put("family_name", a.FamilyName)
             @@ Put("formatted", a.Formatted)
             @@ Put("given_name", a.GivenName)
             @@ Put("honorific_prefix", a.HonorificPrefix)
             @@ Put("honorific_suffix", a.HonorificSuffix)
             @@ Put("middle_name", a.MiddleName)

expandName(tfMap) ==
    IF tfMap = NilMap THEN Nil
    ELSE Ptr([FamilyName      |-> StringField(tfMap, "family_name"),
              Formatted       |-> StringField(tfMap, "formatted"),
              GivenName       |-> StringField(tfMap, "given_name"),
              HonorificPrefix |-> StringField(tfMap, "honorific_prefix"),
              HonorificSuffix |-> StringField(tfMap, "honorific_suffix"),
              MiddleName      |-> StringField(tfMap, "middle_name")])

flattenEmail(apiObject) ==
    IF apiObject = Nil THEN NilMap
    ELSE LET a == apiObject[1]
         IN  ("primary" :> a.Primary)
             @@ Put("type", a.Type)
             @@ Put("value", a.Value)

expandEmail(tfMap) ==
    IF tfMap = NilMap THEN Nil
    ELSE Ptr([Primary |-> tfMap["primary"],
              Type    |-> StringField(tfMap, "type"),
              Value   |-> StringField(tfMap, "value")])

flattenPhoneNumber(apiObject) ==
    IF apiObject = Nil THEN NilMap
    ELSE LET a == apiObject[1]
         IN  ("primary" :> a.Primary)
             @@ Put("type", a.Type)
             @@ Put("value", a.Value)

expandPhoneNumber(tfMap) ==
    IF tfMap = NilMap THEN Nil
    ELSE Ptr([Primary |-> tfMap["primary"],
              Type    |-> StringField(tfMap, "type"),
              Value   |-> StringField(tfMap, "value")])

flattenExternalId(apiObject) ==
    IF apiObject = Nil THEN NilMap
    ELSE LET a == apiObject[1]
         IN  Put("id", a.Id) @@ Put("issuer", a.Issuer)

\* for _, r := range tfList { a := expandX(m); if a == nil { continue }; s = append(s, *a) }
Deref(ptrs) ==
    LET kept == SelectSeq(ptrs, LAMBDA p : p # Nil)
    IN  [i \in 1..Len(kept) |-> kept[i][1]]

expandAddresses(tfList) ==
    Deref([i \in 1..Len(tfList) |-> expandAddress(tfList[i])])

expandEmails(tfList) ==
    Deref([i \in 1..Len(tfList) |-> expandEmail(tfList[i])])

expandPhoneNumbers(tfList) ==
    Deref([i \in 1..Len(tfList) |-> expandPhoneNumber(tfList[i])])

\* a nil []interface{} and an empty one are both <<>>
flattenAddresses(apiObjects) ==
    IF Len(apiObjects) = 0 THEN <<>>
    ELSE [i \in 1..Len(apiObjects) |-> flattenAddress(Ptr(apiObjects[i]))]

flattenEmails(apiObjects) ==
    IF Len(apiObjects) = 0 THEN <<>>
    ELSE [i \in 1..Len(apiObjects) |-> flattenEmail(Ptr(apiObjects[i]))]

flattenPhoneNumbers(apiObjects) ==
    IF Len(apiObjects) = 0 THEN <<>>
    ELSE [i \in 1..Len(apiObjects) |-> flattenPhoneNumber(Ptr(apiObjects[i]))]

flattenExternalIds(apiObjects) ==
    IF Len(apiObjects) = 0 THEN <<>>
    ELSE [i \in 1..Len(apiObjects) |-> flattenExternalId(Ptr(apiObjects[i]))]

----------------------------------------------------------------------------
(* Schema: what a configuration can supply *)

\* identity_store_id: Required, ForceNew, no validation: any string. The
\* non-empty ones are drawn.
ConfigStoreIds == NonEmptyStr(Chars, MaxIdLen)

\* user ids the identity store assigns: opaque, non-empty, without a "/"
AssignableUserIds == NonEmptyStr(Chars \ {Sep}, MaxIdLen)

\* values of the string fields of the nested groups: unset and one value
FieldStrings == {"", "Jane"}

AddressKeys == {"country", "formatted", "locality", "postal_code", "region",
                "street_address", "type"}
NameKeys == {"family_name", "formatted", "given_name", "honorific_prefix",
             "honorific_suffix", "middle_name"}
EmailKeys == {"type", "value"}
PhoneNumberKeys == {"type", "value"}

Groups == {"address", "name", "email", "phone_number"}

StringKeys(g) ==
    CASE g = "address" -> AddressKeys
      [] g = "name" -> NameKeys
      [] g = "email" -> EmailKeys
      [] g = "phone_number" -> PhoneNumberKeys

HasPrimary(g) == g # "name"

\* the maps over a group's keys: each string key absent, empty or set;
\* primary (where the group has one) a boolean
TfMaps(g) ==
    LET strs == UNION {[ks -> FieldStrings] : ks \in SUBSET StringKeys(g)}
    IN  IF HasPrimary(g)
        THEN {m @@ ("primary" :> b) : m \in strs, b \in BOOLEAN}
        ELSE strs

ApiStrings == {Nil, Ptr(""), Ptr("Jane")}

ApiObjects(g) ==
    CASE g = "address" ->
            [Country : ApiStrings, Formatted : ApiStrings, Locality : ApiStrings,
             PostalCode : ApiStrings, Primary : BOOLEAN, Region : ApiStrings,
             StreetAddress : ApiStrings, Type : ApiStrings]
      [] g = "name" ->
            [FamilyName : ApiStrings, Formatted : ApiStrings,
             GivenName : ApiStrings, HonorificPrefix : ApiStrings,
             HonorificSuffix : ApiStrings, MiddleName : ApiStrings]
      [] g = "email" -> [Primary : BOOLEAN, Type : ApiStrings, Value : ApiStrings]
      [] g = "phone_number" ->
            [Primary : BOOLEAN, Type : ApiStrings, Value : ApiStrings]

\* the API field a configuration key is converted to and from
ApiField(k) ==
    CASE k = "country" -> "Country"
      [] k = "formatted" -> "Formatted"
      [] k = "locality" -> "Locality"
      [] k = "postal_code" -> "PostalCode"
      [] k = "primary" -> "Primary"
      [] k = "region" -> "Region"
      [] k = "street_address" -> "StreetAddress"
      [] k = "type" -> "Type"
      [] k = "value" -> "Value"
      [] k = "family_name" -> "FamilyName"
      [] k = "given_name" -> "GivenName"
      [] k = "honorific_prefix" -> "HonorificPrefix"
      [] k = "honorific_suffix" -> "HonorificSuffix"
      [] k = "middle_name" -> "MiddleName"

expand(g, tfMap) ==
    CASE g = "address" -> expandAddress(tfMap)
      [] g = "name" -> expandName(tfMap)
      [] g = "email" -> expandEmail(tfMap)
      [] g = "phone_number" -> expandPhoneNumber(tfMap)

flatten(g, apiObject) ==
    CASE g = "address" -> flattenAddress(apiObject)
      [] g = "name" -> flattenName(apiObject)
      [] g = "email" -> flattenEmail(apiObject)
      [] g = "phone_number" -> flattenPhoneNumber(apiObject)

----------------------------------------------------------------------------
(* Resource state as the host keeps it (schema.ResourceData) *)

EmptyState ==
    [display_name |-> "", identity_store_id |-> <<>>, locale |-> "",
     nickname |-> "", preferred_language |-> "", profile_url |-> "",
     timezone |-> "", title |-> "", user_id |-> <<>>, user_name |-> "",
     user_type |-> "", addresses |-> <<>>, emails |-> <<>>,
     external_ids |-> <<>>, name |-> <<>>, phone_numbers |-> <<>>]

\* d.Set of a list of nested blocks: every schema key of a block is stored,
\* a key the map lacks with its zero value
FullMap(g, m) ==
    [k \in StringKeys(g) \cup (IF HasPrimary(g) THEN {"primary"} ELSE {}) |->
        IF k \in DOMAIN m THEN m[k] ELSE IF k = "primary" THEN FALSE ELSE ""]

SetList(g, l) == [i \in 1..Len(l) |-> FullMap(g, l[i])]

\* d.Set("external_ids", l): the schema declares "id" a TypeBool, and
\* flattenExternalId hands it a string, which d.Set refuses
SetExternalIds(l) ==
    IF \E i \in 1..Len(l) : "id" \in DOMAIN l[i]
    THEN [err |-> "id: expected type 'bool', got unconvertible type 'string'",
          value |-> <<>>]
    ELSE [err |-> ErrNil,
          value |-> [i \in 1..Len(l) |->
                        [issuer |-> IF "issuer" \in DOMAIN l[i]
                                    THEN l[i]["issuer"] ELSE ""]]]

----------------------------------------------------------------------------
(* The identity store (remote API) *)

\* the n-th user id the identity store assigns
UserIdOf(n) == [i \in 1..n |-> "u"]

UserIds == {UserIdOf(n) : n \in 1..MaxUsers}

NoUsers == [u \in UserIds |-> Nil]

\* the stored user a (store id, user id) pair addresses, or Nil
Lookup(remoteIn, store, uid) ==
    IF /\ uid \in DOMAIN remoteIn
       /\ remoteIn[uid] # Nil
       /\ ToIdString(remoteIn[uid][1].IdentityStoreId) = store
    THEN remoteIn[uid]
    ELSE Nil

\* conn.DescribeUser: descr is how the identity store answers, found the
\* stored user the request addresses
DescribeAnswer(found, descr) ==
    CASE descr = "error" -> [out |-> Nil, err |-> "InternalServerException"]
      [] descr = "empty" -> [out |-> Nil, err |-> ErrNil]
      [] descr = "not_found" -> [out |-> Nil, err |-> "ResourceNotFoundException"]
      [] OTHER ->
            IF found = Nil
            THEN [out |-> Nil, err |-> "ResourceNotFoundException"]
            ELSE [out |-> found, err |-> ErrNil]

DescribeUser(remoteIn, store, uid, descr) ==
    DescribeAnswer(Lookup(remoteIn, store, uid), descr)

\* "not_found": the identity store does not (or does not yet) see the user
DescribeOutcomes == {"normal", "error", "empty", "not_found"}

\* tfresource.NotFound(err)
NotFound(err) == err \in {"NotFoundError", "EmptyResultError"}

\* lines 637-653: what findUserByID makes of DescribeUser's answer r
FindResult(r) ==
    IF r.err # ErrNil
    THEN IF r.err = "ResourceNotFoundException"
         THEN [out |-> Nil, err |-> "NotFoundError"]
         ELSE [out |-> Nil, err |-> r.err]
    ELSE IF r.out = Nil \/ r.out[1].UserId = Nil
         THEN [out |-> Nil, err |-> "EmptyResultError"]
         ELSE [out |-> r.out, err |-> ErrNil]

findUserByID(remoteIn, identityStoreId, userId, descr) ==
    FindResult(DescribeUser(remoteIn, identityStoreId, userId, descr))

----------------------------------------------------------------------------
(* Read handler *)

RetNil == "nil"

DescribeCall(identityStoreId, userId) ==
    [op |-> "DescribeUser", IdentityStoreId |-> identityStoreId,
     UserId |-> userId]

\* lines 339-349 and 351-357: the scalar fields, addresses and emails
ReadSetFirst(stIn, o) ==
    [stIn EXCEPT
        !.display_name = awsToString(o.DisplayName),
        !.identity_store_id = ToIdString(o.IdentityStoreId),
        !.locale = awsToString(o.Locale),
        !.nickname = awsToString(o.NickName),
        !.preferred_language = awsToString(o.PreferredLanguage),
        !.profile_url = awsToString(o.ProfileUrl),
        !.timezone = awsToString(o.Timezone),
        !.title = awsToString(o.Title),
        !.user_id = ToIdString(o.UserId),
        !.user_name = awsToString(o.UserName),
        !.user_type = awsToString(o.UserType),
        !.addresses = SetList("address", flattenAddresses(o.Addresses)),
        !.emails = SetList("email", flattenEmails(o.Emails))]

\* lines 359-369: external_ids, name and phone_numbers
ReadSetRest(st1, o, ext) ==
    [st1 EXCEPT
        !.external_ids = ext,
        !.name = SetList("name", <<flattenName(o.Name)>>),
        !.phone_numbers = SetList("phone_number",
                                  flattenPhoneNumbers(o.PhoneNumbers))]

\* a read that treats not-found on a new resource like any other not-found
ReadNotFoundIgnoresNew(isNewIn, err) == NotFound(err)

\* if !d.IsNewResource() && tfresource.NotFound(err)
ReadNotFoundGone(isNewIn, err) == ~isNewIn /\ NotFound(err)

\* lines 359-371: external_ids (ext is what d.Set made of it), then the rest
ReadSetExternal(ext, st1, o, idIn, cs) ==
    IF ext.err # ErrNil
    THEN [id |-> idIn, st |-> st1, ret |-> "setting", calls |-> cs]
    ELSE [id |-> idIn, st |-> ReadSetRest(st1, o, ext.value), ret |-> RetNil,
          calls |-> cs]

\* lines 329-337: f is what findUserByID returned
ReadFound(f, idIn, stIn, isNewIn, cs) ==
    IF ReadNotFoundGone(isNewIn, f.err)
    THEN [id |-> <<>>, st |-> stIn, ret |-> RetNil, calls |-> cs]
    ELSE IF f.err # ErrNil
    THEN [id |-> idIn, st |-> stIn, ret |-> "reading", calls |-> cs]
    ELSE ReadSetExternal(SetExternalIds(flattenExternalIds(f.out[1].ExternalIds)),
                         ReadSetFirst(stIn, f.out[1]), f.out[1], idIn, cs)

\* a read that describes the user whatever the identifier looks like
ReadParsedUnchecked(p, idIn, stIn, isNewIn, remoteIn, descr) ==
    ReadFound(findUserByID(remoteIn, p.identityStoreId, p.userId, descr),
              idIn, stIn, isNewIn,
              <<DescribeCall(p.identityStoreId, p.userId)>>)

\* lines 323-327: p is what resourceUserParseID returned
ReadParsed(p, idIn, stIn, isNewIn, remoteIn, descr) ==
    IF p.err # ErrNil
    THEN [id |-> idIn, st |-> stIn, ret |-> "reading", calls |-> <<>>]
    ELSE ReadFound(findUserByID(remoteIn, p.identityStoreId, p.userId, descr),
                   idIn, stIn, isNewIn,
                   <<DescribeCall(p.identityStoreId, p.userId)>>)

resourceUserRead(idIn, stIn, isNewIn, remoteIn, descr) ==
    ReadParsed(resourceUserParseID(idIn), idIn, stIn, isNewIn, remoteIn, descr)

----------------------------------------------------------------------------
(* Create handler *)

\* if v, ok := d.GetOk(k); ok { in.F = aws.String(v.(string)) }
GetOkString(v) == IF v # "" THEN Ptr(v) ELSE Nil

\* lines 254-302: the request built from the configuration
CreateUserInput(cfg) ==
    [DisplayName       |-> Ptr(cfg.display_name),
     IdentityStoreId   |-> Ptr(cfg.identity_store_id),
     UserName          |-> Ptr(cfg.user_name),
     Addresses         |-> IF Len(cfg.addresses) > 0
                           THEN expandAddresses(cfg.addresses) ELSE <<>>,
     Emails            |-> IF Len(cfg.emails) > 0
                           THEN expandEmails(cfg.emails) ELSE <<>>,
     Locale            |-> GetOkString(cfg.locale),
     Name              |-> IF Len(cfg.name) > 0 /\ cfg.name[1] # NilMap
                           THEN expandName(cfg.name[1]) ELSE Nil,
     PhoneNumbers      |-> IF Len(cfg.phone_numbers) > 0
                           THEN expandPhoneNumbers(cfg.phone_numbers) ELSE <<>>,
     NickName          |-> GetOkString(cfg.nickname),
     PreferredLanguage |-> GetOkString(cfg.preferred_language),
     ProfileUrl        |-> GetOkString(cfg.profile_url),
     Timezone          |-> GetOkString(cfg.timezone),
     Title             |-> GetOkString(cfg.title),
     UserType          |-> GetOkString(cfg.user_type)]

CreateCall(in) == [op |-> "CreateUser", in |-> in]

CreateOutcomes == {"ok", "error", "nil_output", "no_user_id", "no_store_id"}

\* the identity store after it stored the request under a new user id
Stored(remoteIn, nextUserIn, in) ==
    [remote |-> [remoteIn EXCEPT ![UserIdOf(nextUserIn + 1)] =
                    Ptr(in @@ [UserId |-> Ptr(UserIdOf(nextUserIn + 1)),
                               ExternalIds |-> <<>>])],
     nextUser |-> nextUserIn + 1]

\* conn.CreateUser: how the identity store answers. Unless it answers with an
\* error it stores the request as sent under the next user id.
CreateAnswer(stored, remoteIn, nextUserIn, in, outcome) ==
    CASE outcome = "error" ->
            [out |-> Nil, err |-> "ValidationException",
             remote |-> remoteIn, nextUser |-> nextUserIn]
      [] outcome = "nil_output" -> stored @@ [out |-> Nil, err |-> ErrNil]
      [] outcome = "no_user_id" ->
            stored @@ [out |-> Ptr([IdentityStoreId |-> in.IdentityStoreId,
                                    UserId |-> Nil]),
                       err |-> ErrNil]
      [] outcome = "no_store_id" ->
            stored @@ [out |-> Ptr([IdentityStoreId |-> Nil,
                                    UserId |-> Ptr(UserIdOf(nextUserIn + 1))]),
                       err |-> ErrNil]
      [] OTHER ->
            stored @@ [out |-> Ptr([IdentityStoreId |-> in.IdentityStoreId,
                                    UserId |-> Ptr(UserIdOf(nextUserIn + 1))]),
                       err |-> ErrNil]

CreateUser(remoteIn, nextUserIn, in, outcome) ==
    CreateAnswer(Stored(remoteIn, nextUserIn, in), remoteIn, nextUserIn, in,
                 outcome)

\* a check of the response that accepts one without a user id
CreateOutputNoUserIdOk(o) == o = Nil

\* if out == nil || out.UserId == nil
CreateOutputEmpty(o) == o = Nil \/ o[1].UserId = Nil

\* line 315: rd is what the read path returned
CreateRead(rd, r, in) ==
    [id |-> rd.id, st |-> rd.st, remote |-> r.remote, nextUser |-> r.nextUser,
     ret |-> rd.ret, calls |-> <<CreateCall(in)>> \o rd.calls, read |-> TRUE]

\* lines 305-315: r is what conn.CreateUser returned
CreateCalled(r, in, stIn, descr) ==
    IF r.err # ErrNil \/ CreateOutputEmpty(r.out)
    THEN [id |-> <<>>, st |-> stIn, remote |-> r.remote,
          nextUser |-> r.nextUser, ret |-> "creating",
          calls |-> <<CreateCall(in)>>, read |-> FALSE]
    ELSE CreateRead(resourceUserRead(Sprintf(ToIdString(r.out[1].IdentityStoreId),
                                             ToIdString(r.out[1].UserId)),
                                     stIn, TRUE, r.remote, descr),
                    r, in)

\* line 304: in is the request
CreateSend(in, stIn, remoteIn, nextUserIn, outcome, descr) ==
    CreateCalled(CreateUser(remoteIn, nextUserIn, in, outcome), in, stIn, descr)

resourceUserCreate(cfg, stIn, remoteIn, nextUserIn, outcome, descr) ==
    CreateSend(CreateUserInput(cfg), stIn, remoteIn, nextUserIn, outcome, descr)

----------------------------------------------------------------------------
(* Delete handler *)

DeleteCall(identityStoreId, userId) ==
    [op |-> "DeleteUser", IdentityStoreId |-> identityStoreId,
     UserId |-> userId]

DeleteOutcomes == {"normal", "error"}

\* conn.DeleteUser: found is the stored user the request addresses
DeleteAnswer(found, remoteIn, uid, del) ==
    CASE del = "error" -> [err |-> "InternalServerException", remote |-> remoteIn]
      [] OTHER ->
            IF found = Nil
            THEN [err |-> "ResourceNotFoundException", remote |-> remoteIn]
            ELSE [err |-> ErrNil, remote |-> [remoteIn EXCEPT ![uid] = Nil]]

DeleteUser(remoteIn, store, uid, del) ==
    DeleteAnswer(Lookup(remoteIn, store, uid), remoteIn, uid, del)

\* a delete that surfaces every error of the call, not-found included
DeleteErrIgnoredNever(err) == FALSE

\* var nfe *types.ResourceNotFoundException; errors.As(err, &nfe)
DeleteErrIgnored(err) == err = "ResourceNotFoundException"

\* lines 617-626: r is what conn.DeleteUser returned
DeleteCalled(r, cs) ==
    IF r.err # ErrNil
    THEN IF DeleteErrIgnored(r.err)
         THEN [remote |-> r.remote, ret |-> RetNil, calls |-> cs]
         ELSE [remote |-> r.remote, ret |-> "deleting", calls |-> cs]
    ELSE [remote |-> r.remote, ret |-> RetNil, calls |-> cs]

resourceUserDelete(stIn, remoteIn, del) ==
    DeleteCalled(DeleteUser(remoteIn, stIn.identity_store_id, stIn.user_id, del),
                 <<DeleteCall(stIn.identity_store_id, stIn.user_id)>>)

----------------------------------------------------------------------------
(* Update handler *)

\* lines 399-573: Attribute is the provider schema's name, Field the API's
\* attribute path, Expand the entry's transform ("nil" when it has none)
fieldsToUpdate ==
    << [Attribute |-> "display_name", Field |-> "displayName", Expand |-> "nil"],
       [Attribute |-> "locale", Field |-> "locale", Expand |-> "nil"],
       [Attribute |-> "name.0.family_name", Field |-> "name.familyName", Expand |-> "nil"],
       [Attribute |-> "name.0.formatted", Field |-> "name.formatted", Expand |-> "nil"],
       [Attribute |-> "name.0.given_name", Field |-> "name.givenName", Expand |-> "nil"],
       [Attribute |-> "name.0.honorific_prefix", Field |-> "name.honorificPrefix", Expand |-> "nil"],
       [Attribute |-> "name.0.honorific_suffix", Field |-> "name.honorificSuffix", Expand |-> "nil"],
       [Attribute |-> "name.0.middle_name", Field |-> "name.middleName", Expand |-> "nil"],
       [Attribute |-> "nickname", Field |-> "nickName", Expand |-> "nil"],
       [Attribute |-> "preferred_language", Field |-> "preferredLanguage", Expand |-> "nil"],
       [Attribute |-> "profile_url", Field |-> "profileUrl", Expand |-> "nil"],
       [Attribute |-> "timezone", Field |-> "timezone", Expand |-> "nil"],
       [Attribute |-> "title", Field |-> "title", Expand |-> "nil"],
       [Attribute |-> "user_type", Field |-> "userType", Expand |-> "nil"],
       [Attribute |-> "addresses", Field |-> "addresses", Expand |-> "addresses"],
       [Attribute |-> "emails", Field |-> "emails", Expand |-> "emails"],
       [Attribute |-> "phone_numbers", Field |-> "phoneNumbers", Expand |-> "phone_numbers"] >>

\* the key of the name block a dotted attribute addresses, "" for any other
NameKeyOf(attr) ==
    CASE attr = "name.0.family_name" -> "family_name"
      [] attr = "name.0.formatted" -> "formatted"
      [] attr = "name.0.given_name" -> "given_name"
      [] attr = "name.0.honorific_prefix" -> "honorific_prefix"
      [] attr = "name.0.honorific_suffix" -> "honorific_suffix"
      [] attr = "name.0.middle_name" -> "middle_name"
      [] OTHER -> ""

\* d.Get(attr) on the values data holds; a path into a missing block reads
\* the zero value
GetAttr(data, attr) ==
    IF NameKeyOf(attr) # ""
    THEN IF Len(data.name) > 0 THEN data.name[1][NameKeyOf(attr)] ELSE ""
    ELSE data[attr]

\* d.HasChange(attr): the planned value differs from the state's
HasChange(stIn, cfg, attr) == GetAttr(stIn, attr) # GetAttr(cfg, attr)

\* a field map that carries a null for a nil field
PutFieldNull(k, p) == IF p # Nil THEN (k :> awsToString(p)) ELSE (k :> "<null>")

\* one key of a field map: set only when the expanded field is not nil
PutField(k, p) == IF p # Nil THEN (k :> awsToString(p)) ELSE <<>>

\* lines 476-510
AddressFieldMap(address) ==
    PutField("country", address.Country)
    @@ PutField("formatted", address.Formatted)
    @@ PutField("locality", address.Locality)
    @@ PutField("postalCode", address.PostalCode)
    @@ ("primary" :> address.Primary)
    @@ PutField("region", address.Region)
    @@ PutField("streetAddress", address.StreetAddress)
    @@ PutField("type", address.Type)

\* lines 525-539
EmailFieldMap(email) ==
    ("primary" :> email.Primary)
    @@ PutField("type", email.Type)
    @@ PutField("value", email.Value)

\* lines 554-568
PhoneNumberFieldMap(email) ==
    ("primary" :> email.Primary)
    @@ PutField("type", email.Type)
    @@ PutField("value", email.Value)

\* an interface{} value, tagged with its dynamic type
StringValue(s) == [kind |-> "string", v |-> s]
ListValue(l) == [kind |-> "list", v |-> l]
NilValue == [kind |-> "nil"]

\* value := d.Get(attr); if expand != nil { value = expand(value) }
ExpandValue(e, value) ==
    CASE e.Expand = "addresses" ->
            LET addresses == expandAddresses(value)
            IN  ListValue([i \in 1..Len(addresses) |-> AddressFieldMap(addresses[i])])
      [] e.Expand = "emails" ->
            LET emails == expandEmails(value)
            IN  ListValue([i \in 1..Len(emails) |-> EmailFieldMap(emails[i])])
      [] e.Expand = "phone_numbers" ->
            LET emails == expandPhoneNumbers(value)
            IN  ListValue([i \in 1..Len(emails) |-> PhoneNumberFieldMap(emails[i])])
      [] OTHER -> StringValue(value)

\* an update that sends the empty string as it is
EmptyToNilNever(value) == value

\* if value == "" { value = nil }
EmptyToNil(value) ==
    IF value.kind = "string" /\ value.v = "" THEN NilValue ELSE value

\* document.NewLazyDocument(value) as it is marshalled: null for nil and for
\* a nil slice
NewLazyDocument(value) ==
    CASE value.kind = "nil" -> [kind |-> "null"]
      [] value.kind = "list" /\ Len(value.v) = 0 -> [kind |-> "null"]
      [] OTHER -> value

Operation(stIn, cfg, e) ==
    [AttributePath |-> e.Field,
     AttributeValue |->
        NewLazyDocument(EmptyToNil(ExpandValue(e, GetAttr(cfg, e.Attribute))))]

\* an update loop that sends every field of the table, changed or not
FieldSentAlways(stIn, cfg, e) == TRUE

\* if d.HasChange(fieldToUpdate.Attribute)
FieldSent(stIn, cfg, e) == HasChange(stIn, cfg, e.Attribute)

\* lines 575-594: the operations of entries i.. of the table, in its order
RECURSIVE OperationsFrom(_, _, _)
OperationsFrom(i, stIn, cfg) ==
    IF i > Len(fieldsToUpdate) THEN <<>>
    ELSE (IF FieldSent(stIn, cfg, fieldsToUpdate[i])
          THEN <<Operation(stIn, cfg, fieldsToUpdate[i])>>
          ELSE <<>>)
         \o OperationsFrom(i + 1, stIn, cfg)

UpdateOperations(stIn, cfg) == OperationsFrom(1, stIn, cfg)

\* the identity store's reading of an operation's value
DocPtr(doc) == IF doc.kind = "string" THEN Ptr(doc.v) ELSE Nil
MapPtr(m, k) == IF k \in DOMAIN m THEN Ptr(m[k]) ELSE Nil

AddressOfMap(m) ==
    [Country |-> MapPtr(m, "country"), Formatted |-> MapPtr(m, "formatted"),
     Locality |-> MapPtr(m, "locality"), PostalCode |-> MapPtr(m, "postalCode"),
     Primary |-> m["primary"], Region |-> MapPtr(m, "region"),
     StreetAddress |-> MapPtr(m, "streetAddress"), Type |-> MapPtr(m, "type")]

EmailOfMap(m) ==
    [Primary |-> m["primary"], Type |-> MapPtr(m, "type"),
     Value |-> MapPtr(m, "value")]

DocList(doc) == IF doc.kind = "list" THEN doc.v ELSE <<>>

NoName ==
    [FamilyName |-> Nil, Formatted |-> Nil, GivenName |-> Nil,
     HonorificPrefix |-> Nil, HonorificSuffix |-> Nil, MiddleName |-> Nil]

\* the identity store applying one attribute operation to a stored user
ApplyOperation(user, o) ==
    LET path == o.AttributePath
        v == o.AttributeValue
        n == IF user.Name = Nil THEN NoName ELSE user.Name[1]
    IN  CASE path = "displayName" -> [user EXCEPT !.DisplayName = DocPtr(v)]
          [] path = "locale" -> [user EXCEPT !.Locale = DocPtr(v)]
          [] path = "name.familyName" ->
                [user EXCEPT !.Name = Ptr([n EXCEPT !.FamilyName = DocPtr(v)])]
          [] path = "name.formatted" ->
                [user EXCEPT !.Name = Ptr([n EXCEPT !.Formatted = DocPtr(v)])]
          [] path = "name.givenName" ->
                [user EXCEPT !.Name = Ptr([n EXCEPT !.GivenName = DocPtr(v)])]
          [] path = "name.honorificPrefix" ->
                [user EXCEPT !.Name = Ptr([n EXCEPT !.HonorificPrefix = DocPtr(v)])]
          [] path = "name.honorificSuffix" ->
                [user EXCEPT !.Name = Ptr([n EXCEPT !.HonorificSuffix = DocPtr(v)])]
          [] path = "name.middleName" ->
                [user EXCEPT !.Name = Ptr([n EXCEPT !.MiddleName = DocPtr(v)])]
          [] path = "nickName" -> [user EXCEPT !.NickName = DocPtr(v)]
          [] path = "preferredLanguage" ->
                [user EXCEPT !.PreferredLanguage = DocPtr(v)]
          [] path = "profileUrl" -> [user EXCEPT !.ProfileUrl = DocPtr(v)]
          [] path = "timezone" -> [user EXCEPT !.Timezone = DocPtr(v)]
          [] path = "title" -> [user EXCEPT !.Title = DocPtr(v)]
          [] path = "userType" -> [user EXCEPT !.UserType = DocPtr(v)]
          [] path = "addresses" ->
                [user EXCEPT !.Addresses =
                    [i \in 1..Len(DocList(v)) |-> AddressOfMap(DocList(v)[i])]]
          [] path = "emails" ->
                [user EXCEPT !.Emails =
                    [i \in 1..Len(DocList(v)) |-> EmailOfMap(DocList(v)[i])]]
          [] path = "phoneNumbers" ->
                [user EXCEPT !.PhoneNumbers =
                    [i \in 1..Len(DocList(v)) |-> EmailOfMap(DocList(v)[i])]]
          [] OTHER -> user

RECURSIVE ApplyOperations(_, _)
ApplyOperations(user, ops) ==
    IF ops = <<>> THEN user
    ELSE ApplyOperations(ApplyOperation(user, Head(ops)), Tail(ops))

UpdateOutcomes == {"normal", "error"}

\* conn.UpdateUser: all operations are applied, or none; found is the stored
\* user the request addresses
UpdateAnswer(found, remoteIn, in, upd) ==
    CASE upd = "error" -> [err |-> "InternalServerException", remote |-> remoteIn]
      [] OTHER ->
            IF found = Nil
            THEN [err |-> "ResourceNotFoundException", remote |-> remoteIn]
            ELSE [err |-> ErrNil,
                  remote |-> [remoteIn EXCEPT ![in.UserId] =
                                Ptr(ApplyOperations(found[1], in.Operations))]]

UpdateUser(remoteIn, in, upd) ==
    UpdateAnswer(Lookup(remoteIn, in.IdentityStoreId, in.UserId), remoteIn, in,
                 upd)

UpdateCall(in) == [op |-> "UpdateUser", in |-> in]

\* an update that calls the identity store even with nothing to send
UpdateNeededAlways(ops) == TRUE

\* if len(in.Operations) > 0
UpdateNeeded(ops) == Len(ops) > 0

\* an update that goes on to the read whatever the update call returned
UpdateAbortedNever(err) == FALSE

\* lines 599-601: if err != nil { return create.DiagError(...) }
UpdateAborted(err) == err # ErrNil

\* line 604: rd is what the read path returned
UpdateRead(rd, r) ==
    [id |-> rd.id, st |-> rd.st, remote |-> r.remote, ret |-> rd.ret,
     calls |-> r.calls \o rd.calls, read |-> TRUE]

\* lines 599-604: r is what conn.UpdateUser returned, if it was called
UpdateCalled(r, idIn, stIn, descr) ==
    IF UpdateAborted(r.err)
    THEN [id |-> idIn, st |-> stIn, remote |-> r.remote, ret |-> "updating",
          calls |-> r.calls, read |-> FALSE]
    ELSE UpdateRead(resourceUserRead(idIn, stIn, FALSE, r.remote, descr), r)

\* lines 596-598: in is the request
UpdateSend(in, idIn, stIn, remoteIn, upd, descr) ==
    UpdateCalled(IF UpdateNeeded(in.Operations)
                 THEN UpdateUser(remoteIn, in, upd) @@ [calls |-> <<UpdateCall(in)>>]
                 ELSE [err |-> ErrNil, remote |-> remoteIn, calls |-> <<>>],
                 idIn, stIn, descr)

resourceUserUpdate(cfg, idIn, stIn, remoteIn, upd, descr) ==
    UpdateSend([IdentityStoreId |-> cfg.identity_store_id,
                UserId |-> stIn.user_id,
                Operations |-> UpdateOperations(stIn, cfg)],
               idIn, stIn, remoteIn, upd, descr)

----------------------------------------------------------------------------
(* Configurations the host hands to the handlers *)

NameBlock(family, formatted, given, prefix, suffix, middle) ==
    [family_name |-> family, formatted |-> formatted, given_name |-> given,
     honorific_prefix |-> prefix, honorific_suffix |-> suffix,
     middle_name |-> middle]

AddressBlock(country, primary) ==
    [country |-> country, formatted |-> "", locality |-> "", postal_code |-> "",
     primary |-> primary, region |-> "", street_address |-> "", type |-> ""]

EmailBlock(primary, type, value) ==
    [primary |-> primary, type |-> type, value |-> value]

Config(store, display, nick, nm, addrs, mails, phones, opt) ==
    [display_name |-> display, identity_store_id |-> store,
     locale |-> opt.locale, nickname |-> nick,
     preferred_language |-> opt.preferred_language,
     profile_url |-> opt.profile_url, timezone |-> opt.timezone,
     title |-> opt.title, user_name |-> "jdoe", user_type |-> opt.user_type,
     addresses |-> addrs, emails |-> mails, name |-> <<nm>>,
     phone_numbers |-> phones]

NoOptionals ==
    [locale |-> "", preferred_language |-> "", profile_url |-> "",
     timezone |-> "", title |-> "", user_type |-> ""]

\* identity store ids of the lifecycle: one plain, one holding a "/"
LifeStoreIds == {<<"d">>, <<"d", "/", "d">>}

\* the configurations of the lifecycle
LifeConfigs ==
    {Config(s, "Jane Doe", nick,
            NameBlock("Doe", "", "Jane", "", "", ""), <<>>, mails, <<>>,
            NoOptionals) :
        s \in LifeStoreIds, nick \in {"", "J"}, mails \in {<<>>}}

\* the attributes an update tracks, as the schema names them
TrackedAttributes == {fieldsToUpdate[i].Attribute : i \in 1..Len(fieldsToUpdate)}

\* the values a plan can change an attribute to, other than the one it has
Alternatives(attr, cur) ==
    CASE attr = "display_name" ->
            IF cur = "Jane Doe" THEN <<"J. Doe">> ELSE <<"Jane Doe">>
      [] attr = "name.0.family_name" -> IF cur = "Doe" THEN <<"Roe">> ELSE <<"Doe">>
      [] attr = "name.0.given_name" -> IF cur = "Jane" THEN <<"Joan">> ELSE <<"Jane">>
      [] attr = "nickname" ->
            IF cur = "" THEN <<"J", "Jane">>
            ELSE IF cur = "J" THEN <<"", "Jane">> ELSE <<"", "J">>
      [] attr = "addresses" ->
            IF cur = <<>>
            THEN <<<<AddressBlock("NZ", FALSE)>>, <<AddressBlock("", TRUE)>>,
                   <<[AddressBlock("NZ", TRUE) EXCEPT
                        !.postal_code = "6011", !.street_address = "1 Main St"]>>>>
            ELSE IF cur = <<AddressBlock("NZ", FALSE)>>
            THEN <<<<>>, <<AddressBlock("", TRUE)>>,
                   <<[AddressBlock("NZ", FALSE) EXCEPT !.postal_code = "6011"]>>>>
            ELSE <<<<>>, <<AddressBlock("NZ", FALSE)>>>>
      [] attr = "emails" ->
            IF cur = <<>>
            THEN <<<<EmailBlock(FALSE, "work", "jane@example.com")>>>>
            ELSE IF cur = <<EmailBlock(FALSE, "work", "jane@example.com")>>
            THEN <<<<>>, <<EmailBlock(FALSE, "", "jane@example.com")>>>>
            ELSE <<<<>>>>
      [] attr = "phone_numbers" ->
            IF cur = <<>> THEN <<<<EmailBlock(TRUE, "", "555")>>>> ELSE <<<<>>>>
      [] OTHER -> IF cur = "" THEN <<"set">> ELSE <<"">>

\* the sets of at most n tracked attributes
RECURSIVE AttributeSets(_)
AttributeSets(n) ==
    IF n = 0 THEN {{}}
    ELSE AttributeSets(n - 1)
         \cup {S \cup {a} : S \in AttributeSets(n - 1), a \in TrackedAttributes}

\* a change: for each attribute of a set, which of its alternatives it takes
Changes(data, n) ==
    UNION {{ch \in [S -> 1..3] :
                \A a \in S : ch[a] <= Len(Alternatives(a, GetAttr(data, a)))} :
           S \in AttributeSets(n)}

\* every tracked attribute changed at once
AllChanged == [a \in TrackedAttributes |-> 1]

Planned(data, ch, a) ==
    IF a \in DOMAIN ch THEN Alternatives(a, GetAttr(data, a))[ch[a]]
    ELSE GetAttr(data, a)

\* the configuration that differs from data by the change ch
ChangedConfig(data, ch) ==
    [display_name |-> Planned(data, ch, "display_name"),
     identity_store_id |-> data.identity_store_id,
     locale |-> Planned(data, ch, "locale"),
     nickname |-> Planned(data, ch, "nickname"),
     preferred_language |-> Planned(data, ch, "preferred_language"),
     profile_url |-> Planned(data, ch, "profile_url"),
     timezone |-> Planned(data, ch, "timezone"),
     title |-> Planned(data, ch, "title"),
     user_name |-> data.user_name,
     user_type |-> Planned(data, ch, "user_type"),
     addresses |-> Planned(data, ch, "addresses"),
     emails |-> Planned(data, ch, "emails"),
     name |-> <<NameBlock(Planned(data, ch, "name.0.family_name"),
                          Planned(data, ch, "name.0.formatted"),
                          Planned(data, ch, "name.0.given_name"),
                          Planned(data, ch, "name.0.honorific_prefix"),
                          Planned(data, ch, "name.0.honorific_suffix"),
                          Planned(data, ch, "name.0.middle_name"))>>,
     phone_numbers |-> Planned(data, ch, "phone_numbers")]

\* the configurations an update is computed from: one with little set and
\* one with everything set
WideStarts ==
    {Config(<<"d">>, "Jane Doe", "J", NameBlock("Doe", "", "Jane", "", "", ""),
            <<>>, <<>>, <<>>, NoOptionals),
     Config(<<"d">>, "Jane Doe", "Jane",
            NameBlock("Doe", "Jane Doe", "Jane", "Dr", "PhD", "M"),
            <<AddressBlock("NZ", FALSE)>>,
            <<EmailBlock(FALSE, "work", "jane@example.com")>>,
            <<EmailBlock(TRUE, "", "555")>>,
            [locale |-> "en", preferred_language |-> "en", profile_url |-> "url",
             timezone |-> "UTC", title |-> "Dr", user_type |-> "staff"])}

\* identifiers an import can be given
ImportIds ==
    {<<"d", "/", "u">>, <<"d", "/", "u", "u">>, <<"d", "u">>,
     <<"d", "/", "u", "/", "d">>, <<"/", "u">>, <<"d", "/">>, <<"/">>}

----------------------------------------------------------------------------
(* The host's lifecycle runner and the handlers as actions *)

PureIdle == pc = "life" /\ inp = <<>> /\ out = <<>>

LifeStart ==
    /\ id = <<>>
    /\ isNew = FALSE
    /\ st = EmptyState
    /\ remote = NoUsers
    /\ nextUser = 0
    /\ calls = <<>>
    /\ ret = "none"
    /\ last = [op |-> "none"]

Init == LifeStart /\ PureIdle

\* an import has set the identifier and its read has not run yet
ImportPending == last.op = "Import"

\* the read of an import failed: the host keeps nothing of it
ImportFailed == last.op = "Read" /\ last.imported /\ ret # RetNil

\* schema.Resource.Apply with no prior state: MarkNewResource, then Create
Create(cfg, outcome, descr) ==
    /\ id = <<>> /\ st = EmptyState
    /\ nextUser < MaxUsers
    /\ \E r \in {resourceUserCreate(cfg, st, remote, nextUser, outcome, descr)} :
           /\ Len(r.calls) < 2 => descr = "normal"
           /\ id' = r.id
           /\ st' = r.st
           /\ remote' = r.remote
           /\ nextUser' = r.nextUser
           /\ calls' = r.calls
           /\ ret' = r.ret
           /\ last' = [op |-> "Create", cfg |-> cfg, outcome |-> outcome,
                       descr |-> descr, read |-> r.read]
    /\ isNew' = TRUE
    /\ UNCHANGED pureVars

\* schema.Resource.RefreshWithoutUpgrade: Read on the tracked resource
Read(descr) ==
    /\ id # <<>>
    /\ ~ImportFailed
    /\ \E r \in {resourceUserRead(id, st, FALSE, remote, descr)} :
           /\ r.calls = <<>> => descr = "normal"
           /\ id' = r.id
           /\ st' = r.st
           /\ calls' = r.calls
           /\ ret' = r.ret
           /\ last' = [op |-> "Read", descr |-> descr,
                       imported |-> ImportPending]
    /\ isNew' = FALSE
    /\ UNCHANGED <<remote, nextUser>>
    /\ UNCHANGED pureVars

\* the configurations the host plans an update with: identity_store_id and
\* user_name are ForceNew, so they are the state's
UpdateConfigs(cfgs) ==
    {c \in cfgs : /\ c.identity_store_id = st.identity_store_id
                  /\ c.user_name = st.user_name}

Update(cfg, upd, descr) ==
    /\ id # <<>>
    /\ ~ImportPending /\ ~ImportFailed
    /\ \E r \in {resourceUserUpdate(cfg, id, st, remote, upd, descr)} :
           /\ (r.calls = <<>> \/ r.calls[1].op # "UpdateUser") => upd = "normal"
           /\ ~r.read => descr = "normal"
           /\ id' = r.id
           /\ st' = r.st
           /\ remote' = r.remote
           /\ calls' = r.calls
           /\ ret' = r.ret
           /\ last' = [op |-> "Update", cfg |-> cfg, upd |-> upd,
                       descr |-> descr, read |-> r.read]
    /\ isNew' = FALSE
    /\ UNCHANGED nextUser
    /\ UNCHANGED pureVars

Delete(del) ==
    /\ id # <<>>
    /\ ~ImportPending /\ ~ImportFailed
    /\ \E r \in {resourceUserDelete(st, remote, del)} :
           /\ remote' = r.remote
           /\ calls' = r.calls
           /\ ret' = r.ret
           /\ last' = [op |-> "Delete", del |-> del,
                       again |-> last.op = "Delete" /\ ret = RetNil]
    /\ isNew' = FALSE
    /\ UNCHANGED <<id, st, nextUser>>
    /\ UNCHANGED pureVars

\* schema.ImportStatePassthroughContext: the identifier is the caller's string
Import(newId) ==
    /\ id = <<>> /\ st = EmptyState
    /\ id' = newId
    /\ calls' = <<>>
    /\ ret' = "none"
    /\ last' = [op |-> "Import"]
    /\ isNew' = FALSE
    /\ UNCHANGED <<st, remote, nextUser>>
    /\ UNCHANGED pureVars

\* the host drops a resource whose identifier was cleared, that was deleted,
\* or whose import or creation failed
Forget ==
    /\ \/ id = <<>> /\ st # EmptyState
       \/ id # <<>> /\ ImportFailed
       \/ id # <<>> /\ last.op = "Delete" /\ ret = RetNil
    /\ id' = <<>>
    /\ st' = EmptyState
    /\ calls' = <<>>
    /\ ret' = "none"
    /\ last' = [op |-> "Forget"]
    /\ isNew' = FALSE
    /\ UNCHANGED <<remote, nextUser>>
    /\ UNCHANGED pureVars

\* the user is deleted in the identity store by someone else
RemoteDelete(u) ==
    /\ remote[u] # Nil
    /\ ~ImportPending /\ ~ImportFailed
    /\ remote' = [remote EXCEPT ![u] = Nil]
    /\ last' = [op |-> "RemoteDelete"]
    /\ UNCHANGED <<id, isNew, st, nextUser, calls, ret>>
    /\ UNCHANGED pureVars

\* an external identity provider links the user
RemoteLink(u) ==
    /\ remote[u] # Nil
    /\ remote[u][1].ExternalIds = <<>>
    /\ ~ImportPending /\ ~ImportFailed
    /\ remote' = [remote EXCEPT ![u] =
                    Ptr([remote[u][1] EXCEPT !.ExternalIds =
                            <<[Id |-> Ptr("ext-1"), Issuer |-> Ptr("scim")]>>])]
    /\ last' = [op |-> "RemoteLink"]
    /\ UNCHANGED <<id, isNew, st, nextUser, calls, ret>>
    /\ UNCHANGED pureVars

Next ==
    \/ \E cfg \in LifeConfigs, outcome \in CreateOutcomes,
          descr \in DescribeOutcomes : Create(cfg, outcome, descr)
    \/ \E descr \in DescribeOutcomes : Read(descr)
    \/ \E cfg \in UpdateConfigs(LifeConfigs), upd \in UpdateOutcomes,
          descr \in DescribeOutcomes : Update(cfg, upd, descr)
    \/ \E del \in DeleteOutcomes : Delete(del)
    \/ \E newId \in ImportIds : Import(newId)
    \/ Forget
    \/ \E u \in UserIds : RemoteDelete(u)
    \/ \E u \in UserIds : RemoteLink(u)

Spec == Init /\ [][Next]_vars

----------------------------------------------------------------------------
(* Updates between wide configurations: one update of a created user *)

InitUpdate ==
    /\ \E c \in WideStarts :
          \E r \in {resourceUserCreate(c, EmptyState, NoUsers, 0, "ok", "normal")} :
              /\ id = r.id
              /\ st = r.st
              /\ remote = r.remote
              /\ nextUser = r.nextUser
              /\ calls = r.calls
              /\ ret = r.ret
              /\ last = [op |-> "Create", cfg |-> c, outcome |-> "ok",
                         descr |-> "normal", read |-> r.read]
    /\ isNew = TRUE
    /\ PureIdle

UpdateWide ==
    /\ last.op = "Create"
    /\ \E ch \in Changes(st, MaxChanged) \cup {AllChanged},
          upd \in UpdateOutcomes :
            Update(ChangedConfig(st, ch), upd, "normal")

NextUpdate == UpdateWide

SpecUpdate == InitUpdate /\ [][NextUpdate]_vars

----------------------------------------------------------------------------
(* The identifier codec on its own *)

InitID ==
    /\ LifeStart
    /\ pc = "id_input"
    /\ inp \in [store : ConfigStoreIds, user : AssignableUserIds]
    /\ out = <<>>

\* line 313: the identifier Create composes
ComposeID ==
    /\ pc = "id_input"
    /\ pc' = "id_composed"
    /\ out' = Sprintf(inp.store, inp.user)
    /\ UNCHANGED inp
    /\ UNCHANGED lifeVars

\* line 321: the identifier Read parses
ParseID ==
    /\ pc = "id_composed"
    /\ pc' = "id_parsed"
    /\ out' = resourceUserParseID(out)
    /\ UNCHANGED inp
    /\ UNCHANGED lifeVars

NextID == ComposeID \/ ParseID

SpecID == InitID /\ [][NextID]_vars

----------------------------------------------------------------------------
(* The expand / flatten converters on their own *)

InitCodec ==
    /\ LifeStart
    /\ out = <<>>
    /\ \/ /\ pc = "tf"
          /\ \E g \in Groups : inp \in [g : {g}, tf : TfMaps(g) \cup {NilMap}]
       \/ /\ pc = "api"
          /\ \E g \in Groups : inp \in [g : {g}, api : {Ptr(a) : a \in ApiObjects(g)} \cup {Nil}]

ExpandStep ==
    /\ pc = "tf"
    /\ pc' = "expanded"
    /\ out' = [api |-> expand(inp.g, inp.tf)]
    /\ UNCHANGED inp
    /\ UNCHANGED lifeVars

FlattenBack ==
    /\ pc = "expanded"
    /\ pc' = "roundtrip"
    /\ out' = [api |-> out.api, tf |-> flatten(inp.g, out.api)]
    /\ UNCHANGED inp
    /\ UNCHANGED lifeVars

FlattenStep ==
    /\ pc = "api"
    /\ pc' = "flattened"
    /\ out' = [tf |-> flatten(inp.g, inp.api)]
    /\ UNCHANGED inp
    /\ UNCHANGED lifeVars

NextCodec == ExpandStep \/ FlattenBack \/ FlattenStep

SpecCodec == InitCodec /\ [][NextCodec]_vars

----------------------------------------------------------------------------
(* Creates from wide configurations: one create of a new resource *)

\* the configurations a create is given: each optional field and each nested
\* group set or not set
CreateConfigs ==
    {Config(s, "Jane Doe", nick, NameBlock("Doe", fmtd, "Jane", "", "", mid),
            addrs, mails, phones, opt) :
        s \in LifeStoreIds, nick \in {"", "J"}, fmtd \in {"", "Jane Doe"},
        mid \in {"", "M"},
        addrs \in {<<>>, <<AddressBlock("NZ", FALSE)>>, <<AddressBlock("", TRUE)>>},
        mails \in {<<>>, <<EmailBlock(FALSE, "work", "jane@example.com")>>,
                   <<EmailBlock(TRUE, "", "jane@example.com")>>},
        phones \in {<<>>, <<EmailBlock(TRUE, "", "555")>>},
        opt \in {NoOptionals,
                 [locale |-> "en", preferred_language |-> "en",
                  profile_url |-> "url", timezone |-> "UTC", title |-> "Dr",
                  user_type |-> "staff"]}}

InitCreate == LifeStart /\ PureIdle

CreateWide ==
    /\ last.op = "none"
    /\ \E cfg \in CreateConfigs, outcome \in CreateOutcomes :
          Create(cfg, outcome, "normal")

NextCreate == CreateWide

SpecCreate == InitCreate /\ [][NextCreate]_vars

----------------------------------------------------------------------------
(* Properties.  A step is read through the primed variables: last' names   *)
(* the handler that ran and the inputs it was given, the unprimed          *)
(* variables are what it started from.                                     *)

\* how many "/" an identifier holds
SepCount(s) == Cardinality({i \in 1..Len(s) : s[i] = Sep})

\* s is two non-empty segments around one "/"
TwoSegments(s) == SepCount(s) = 1 /\ s[1] # Sep /\ s[Len(s)] # Sep

\* the calls of cs to one remote operation
CallsTo(cs, op) == {i \in 1..Len(cs) : cs[i].op = op}

\* C1: for every identity_store_id a configuration can supply and every
\* user_id the identity store can assign, both non-empty, parsing the
\* identifier composed of them succeeds and returns exactly the two.
C1_RoundTrip ==
    pc = "id_parsed" =>
        out = [identityStoreId |-> inp.store, userId |-> inp.user,
               err |-> ErrNil]

\* the handler that ran in this step invoked the read path
ReadRan == \/ last'.op = "Read"
           \/ last'.op \in {"Create", "Update"} /\ last'.read

\* the identifier the read path of this step was handed: the one the host
\* tracks or, at the end of a create, the one composed of the response's
\* identity store id and of the user id the identity store assigned
IdRead ==
    IF last'.op = "Create"
    THEN Sprintf(IF last'.outcome = "no_store_id" THEN <<>>
                 ELSE last'.cfg.identity_store_id,
                 UserIdOf(nextUser'))
    ELSE id

\* C2: a read of an identifier that is not two non-empty segments around one
\* "/" returns a reading error, issues no describe call, and leaves the
\* identifier and every state field as they were.
C2_ReadBadId ==
    [][(ReadRan /\ ~TwoSegments(IdRead)) =>
            /\ ret' = "reading"
            /\ CallsTo(calls', "DescribeUser") = {}
            /\ id' = IdRead
            /\ st' = st]_vars

\* a refresh of an imported identifier of three segments failed in parsing
C2_Witness ==
    /\ last.op = "Read"
    /\ id = <<"d", "/", "u", "/", "d">>
    /\ ret = "reading"
    /\ calls = <<>>

\* the identity store rem answers a describe of identifier s with not-found:
\* it is told to (descr), or it holds no user under s
AnswersNotFound(rem, s, descr) ==
    \/ descr = "not_found"
    \/ /\ descr = "normal"
       /\ ~\E u \in DOMAIN rem :
              /\ rem[u] # Nil
              /\ Sprintf(ToIdString(rem[u][1].IdentityStoreId), u) = s

\* C3: when the identity store answers the read's describe call with
\* not-found, a read of a resource that is not new (a refresh, or the read
\* that ends an update) clears the identifier and returns no error, and the
\* read that ends a create returns an error and keeps the identifier.
C3_ReadNotFound ==
    [][(ReadRan /\ TwoSegments(IdRead)
            /\ AnswersNotFound(remote', IdRead, last'.descr)) =>
            IF last'.op = "Create"
            THEN ret' = "reading" /\ id' = IdRead /\ id' # <<>>
            ELSE ret' = RetNil /\ id' = <<>>]_vars

\* a refresh found the user gone from the identity store and cleared the
\* identifier of a resource that had state
C3_Witness ==
    /\ last.op = "Read"
    /\ Len(calls) = 1 /\ calls[1].op = "DescribeUser"
    /\ id = <<>>
    /\ ret = RetNil
    /\ st.user_id # <<>>

\* the read that ended a create was answered not-found: an error, and the
\* identifier kept
C3_CreateCase ==
    /\ last.op = "Create" /\ last.read /\ last.descr = "not_found"
    /\ ret = "reading"
    /\ TwoSegments(id)

\* C4: Delete issues one delete call, for the identity_store_id and user_id
\* of the state; it returns no error when the identity store deleted the user
\* or answered not-found (so a second Delete after a successful one succeeds)
\* and a deleting error for any other error of the call.
C4_DeleteIdempotent ==
    [][last'.op = "Delete" =>
            /\ calls' = <<[op |-> "DeleteUser",
                           IdentityStoreId |-> st.identity_store_id,
                           UserId |-> st.user_id]>>
            /\ ret' = IF last'.del = "error" THEN "deleting" ELSE RetNil
            /\ (last'.again /\ last'.del = "normal") =>
                    ret' = RetNil /\ remote' = remote
            /\ id' = id]_vars

\* a second Delete, after one that succeeded, succeeded as well
C4_Witness ==
    /\ last.op = "Delete" /\ last.again /\ last.del = "normal"
    /\ ret = RetNil
    /\ \A u \in UserIds : remote[u] = Nil
    /\ nextUser > 0

\* the rows of the update table whose attribute the plan cfg changes from
\* what data holds
ChangedRows(data, cfg) ==
    {i \in 1..Len(fieldsToUpdate) :
        GetAttr(data, fieldsToUpdate[i].Attribute)
            # GetAttr(cfg, fieldsToUpdate[i].Attribute)}

\* the operations of ops addressed to one attribute path
OpsOn(ops, path) == {j \in 1..Len(ops) : ops[j].AttributePath = path}

\* the operations the update call of cs carried, none when cs holds no call
SentOperations(cs) ==
    IF CallsTo(cs, "UpdateUser") = {} THEN <<>>
    ELSE cs[CHOOSE i \in CallsTo(cs, "UpdateUser") : TRUE].in.Operations

\* C5: Update issues no update call when no tracked field changed, and
\* otherwise exactly one, which carries the operation of every changed field.
C5_UpdateCallIffChanged ==
    [][last'.op = "Update" =>
            IF ChangedRows(st, last'.cfg) = {}
            THEN CallsTo(calls', "UpdateUser") = {}
            ELSE /\ Cardinality(CallsTo(calls', "UpdateUser")) = 1
                 /\ calls'[1].op = "UpdateUser"
                 /\ Len(SentOperations(calls'))
                        = Cardinality(ChangedRows(st, last'.cfg))]_vars

\* an update that changed every tracked field sent them in one call
C5_Witness ==
    /\ last.op = "Update"
    /\ Cardinality(CallsTo(calls, "UpdateUser")) = 1
    /\ Len(SentOperations(calls)) = Len(fieldsToUpdate)

\* an update that changed nothing called nothing but the describe of its read
C5_NoChangeCase ==
    /\ last.op = "Update" /\ last.read
    /\ CallsTo(calls, "UpdateUser") = {}
    /\ Len(calls) = 1

CompositeAttributes == {"addresses", "emails", "phone_numbers"}

\* the key of a field map a key of a configuration block is sent under
FieldKey(k) ==
    CASE k = "postal_code" -> "postalCode"
      [] k = "street_address" -> "streetAddress"
      [] OTHER -> k

\* the field map of one configuration block: its non-empty strings and its
\* primary flag
FieldMapOf(block) ==
    LET kept == {k \in DOMAIN block : k = "primary" \/ block[k] # ""}
    IN  [f \in {FieldKey(k) : k \in kept} |->
            block[CHOOSE k \in kept : FieldKey(k) = f]]

\* the value sent for a composite group: the list of its blocks' field maps,
\* null when the group has no entry
GroupDocument(blocks) ==
    IF Len(blocks) = 0 THEN [kind |-> "null"]
    ELSE [kind |-> "list",
          v |-> [i \in 1..Len(blocks) |-> FieldMapOf(blocks[i])]]

\* C6: for every set of changed fields, Update produces exactly one operation
\* per changed row of the table, addressed to the row's attribute path, and
\* none for an unchanged row; the operation of a changed composite group
\* carries the list of the field maps of its entries, or null when the group
\* now has no entry.
C6_OperationPerChangedField ==
    [][last'.op = "Update" =>
            /\ \A i \in 1..Len(fieldsToUpdate) :
                 LET e == fieldsToUpdate[i]
                     on == OpsOn(SentOperations(calls'), e.Field)
                 IN  IF i \in ChangedRows(st, last'.cfg)
                     THEN /\ Cardinality(on) = 1
                          /\ e.Attribute \in CompositeAttributes =>
                               SentOperations(calls')[CHOOSE j \in on : TRUE]
                                   .AttributeValue
                               = GroupDocument(last'.cfg[e.Attribute])
                     ELSE on = {}
            /\ \A j \in 1..Len(SentOperations(calls')) :
                 \E i \in 1..Len(fieldsToUpdate) :
                    SentOperations(calls')[j].AttributePath
                        = fieldsToUpdate[i].Field]_vars

\* one update sent a scalar, a group as a list of field maps and a group as
\* null
C6_Witness ==
    /\ last.op = "Update"
    /\ Len(SentOperations(calls)) = 3
    /\ \E j \in OpsOn(SentOperations(calls), "addresses") :
          SentOperations(calls)[j].AttributeValue
            = [kind |-> "list", v |-> <<[primary |-> TRUE]>>]
    /\ \E j \in OpsOn(SentOperations(calls), "emails") :
          SentOperations(calls)[j].AttributeValue = [kind |-> "null"]
    /\ OpsOn(SentOperations(calls), "displayName") # {}

\* the value sent for a scalar field
ScalarDocument(v) ==
    IF v = "" THEN [kind |-> "null"] ELSE [kind |-> "string", v |-> v]

\* C7: the operation of a changed scalar field carries null when the new
\* value is the empty string, never the empty string itself, and carries a
\* non-empty new value unchanged.
C7_EmptyStringToNull ==
    [][last'.op = "Update" =>
            \A i \in ChangedRows(st, last'.cfg) :
                fieldsToUpdate[i].Attribute \notin CompositeAttributes =>
                    \A j \in OpsOn(SentOperations(calls'), fieldsToUpdate[i].Field) :
                        SentOperations(calls')[j].AttributeValue
                            = ScalarDocument(GetAttr(last'.cfg,
                                                     fieldsToUpdate[i].Attribute))]_vars

\* nickname changed to the empty string: one operation on nickName, null
C7_Witness ==
    /\ last.op = "Update"
    /\ last.cfg.nickname = ""
    /\ SentOperations(calls)
         = <<[AttributePath |-> "nickName", AttributeValue |-> [kind |-> "null"]]>>

\* nickname changed from "J" to "Jane": one operation on nickName, "Jane"
C7_NonEmptyCase ==
    /\ last.op = "Update"
    /\ SentOperations(calls)
         = <<[AttributePath |-> "nickName",
              AttributeValue |-> [kind |-> "string", v |-> "Jane"]]>>

\* every string field of the configuration map m is absent or non-empty
NoEmptyStrings(m) == \A k \in DOMAIN m : k = "primary" \/ m[k] # ""

\* C8: for each nested group and every configuration map whose string fields
\* are each absent or non-empty and whose primary flag (where the group has
\* one) is a boolean, flattening the expanded map gives the map back, with
\* the same keys and the same values.
C8_ExpandFlattenRoundTrip ==
    (pc = "roundtrip" /\ inp.tf # NilMap /\ NoEmptyStrings(inp.tf)) =>
        /\ DOMAIN out.tf = DOMAIN inp.tf
        /\ \A k \in DOMAIN inp.tf : out.tf[k] = inp.tf[k]

\* an address with one string set and primary false came back as it was
C8_Witness ==
    /\ pc = "roundtrip"
    /\ inp.g = "address"
    /\ inp.tf = [country |-> "Jane", primary |-> FALSE]
    /\ out.api = Ptr([Country |-> Ptr("Jane"), Formatted |-> Nil,
                      Locality |-> Nil, PostalCode |-> Nil, Primary |-> FALSE,
                      Region |-> Nil, StreetAddress |-> Nil, Type |-> Nil])
    /\ out.tf = inp.tf

\* C9: expand leaves an API field unset exactly when the input string is
\* empty or absent (and otherwise sets it to the input string); flatten omits
\* a key exactly when the API field is nil (and otherwise writes the field's
\* string); the primary flag of address, email and phone number is carried as
\* a boolean in both directions, false included.
C9_OmissionRule ==
    /\ (pc = "expanded" /\ inp.tf # NilMap) =>
          /\ out.api # Nil
          /\ \A k \in StringKeys(inp.g) :
                out.api[1][ApiField(k)] =
                    IF k \in DOMAIN inp.tf /\ inp.tf[k] # ""
                    THEN <<inp.tf[k]>> ELSE <<>>
          /\ HasPrimary(inp.g) => out.api[1].Primary = inp.tf["primary"]
    /\ (pc = "flattened" /\ inp.api # Nil) =>
          /\ out.tf # NilMap
          /\ \A k \in StringKeys(inp.g) :
                IF inp.api[1][ApiField(k)] = <<>>
                THEN k \notin DOMAIN out.tf
                ELSE k \in DOMAIN out.tf
                     /\ out.tf[k] = inp.api[1][ApiField(k)][1]
          /\ HasPrimary(inp.g) =>
                /\ "primary" \in DOMAIN out.tf
                /\ out.tf["primary"] = inp.api[1].Primary
          /\ DOMAIN out.tf \subseteq StringKeys(inp.g) \cup {"primary"}

\* an email with an empty type and primary false was expanded: type unset,
\* primary carried
C9_Witness ==
    /\ pc = "expanded"
    /\ inp.g = "email"
    /\ inp.tf = [primary |-> FALSE, type |-> "", value |-> "Jane"]
    /\ out.api = Ptr([Primary |-> FALSE, Type |-> Nil, Value |-> Ptr("Jane")])

\* an email with a nil type and primary false was flattened: no type key,
\* primary carried
C9_FlattenCase ==
    /\ pc = "flattened"
    /\ inp.g = "email"
    /\ inp.api = Ptr([Primary |-> FALSE, Type |-> Nil, Value |-> Ptr("Jane")])
    /\ out.tf = [primary |-> FALSE, value |-> "Jane"]

\* C10: when the create call errors or its response is nil or lacks a user
\* id, Create returns a creating error, leaves the identifier unset and does
\* not invoke the read path.
C10_CreateFails ==
    (last.op = "Create" /\ last.outcome \in {"error", "nil_output", "no_user_id"}) =>
        /\ ret = "creating"
        /\ id = <<>>
        /\ ~last.read
        /\ Len(calls) = 1 /\ calls[1].op = "CreateUser"
        /\ st = EmptyState

\* a create whose response lacked the user id failed, the identifier unset
C10_Witness ==
    /\ last.op = "Create" /\ last.outcome = "no_user_id"
    /\ ret = "creating"
    /\ id = <<>>
    /\ calls # <<>>

\* a create whose call errored failed, the identifier unset
C10_ErrorCase ==
    /\ last.op = "Create" /\ last.outcome = "error"
    /\ ret = "creating"
    /\ id = <<>>

\* C11: after every create call the identity store answered without error
\* and with a user id, the identifier is the configuration's
\* identity_store_id, a "/" and the user id the identity store assigned, both
\* halves non-empty, and the read path was invoked.
C11_IdFromConfiguration ==
    (last.op = "Create" /\ last.outcome \notin {"error", "nil_output", "no_user_id"}) =>
        /\ id = last.cfg.identity_store_id \o <<"/">> \o UserIdOf(nextUser)
        /\ last.cfg.identity_store_id # <<>>
        /\ UserIdOf(nextUser) # <<>>
        /\ \E i \in 1..Len(id) :
              /\ id[i] = "/"
              /\ SubSeq(id, 1, i - 1) # <<>>
              /\ SubSeq(id, i + 1, Len(id)) # <<>>
        /\ last.read

\* the same, for the creates whose response echoes the request's
\* identity_store_id
C11_WhenStoreIdEchoed ==
    (last.op = "Create" /\ last.outcome = "ok") =>
        /\ id = last.cfg.identity_store_id \o <<"/">> \o UserIdOf(nextUser)
        /\ last.cfg.identity_store_id # <<>>
        /\ last.read

\* a create whose response carried a user id and no identity store id left
\* an identifier with an empty first half
C11_EmptyFirstHalf ==
    /\ last.op = "Create" /\ last.outcome = "no_store_id"
    /\ id = <<"/", "u">>
    /\ last.read
    /\ ret = "reading"

\* the optional scalar fields of a create request and the configuration
\* attribute each is taken from
OptionalScalars ==
    [Locale |-> "locale", NickName |-> "nickname",
     PreferredLanguage |-> "preferred_language", ProfileUrl |-> "profile_url",
     Timezone |-> "timezone", Title |-> "title", UserType |-> "user_type"]

\* the create request in carries the required fields of cfg, and each
\* optional field or nested group of cfg exactly when it is set
CarriesWhatIsSet(in, cfg) ==
    /\ in.DisplayName = <<cfg.display_name>>
    /\ in.IdentityStoreId = <<cfg.identity_store_id>>
    /\ in.UserName = <<cfg.user_name>>
    /\ \A f \in DOMAIN OptionalScalars :
          in[f] = IF cfg[OptionalScalars[f]] = "" THEN <<>>
                  ELSE <<cfg[OptionalScalars[f]]>>
    /\ Len(in.Addresses) = Len(cfg.addresses)
    /\ Len(in.Emails) = Len(cfg.emails)
    /\ Len(in.PhoneNumbers) = Len(cfg.phone_numbers)
    /\ in.Name # <<>>

\* every state field equals the configured input, user_id is the assigned id
StateIsConfiguration(state, cfg, uid) ==
    /\ \A k \in DOMAIN cfg : state[k] = cfg[k]
    /\ state.user_id = uid
    /\ state.external_ids = <<>>

\* C12: the create request carries the required fields always and each
\* optional field or nested group only when the configuration sets it; when
\* the identity store stores the request as sent, the read that ends Create
\* leaves every state field equal to the configured input, user_id equal to
\* the assigned id, and Create returns no error.
C12_CreateThenRead ==
    (last.op = "Create") =>
        /\ calls # <<>> /\ calls[1].op = "CreateUser"
        /\ CarriesWhatIsSet(calls[1].in, last.cfg)
        /\ (last.outcome = "ok" /\ last.descr = "normal") =>
              /\ ret = RetNil
              /\ StateIsConfiguration(st, last.cfg, UserIdOf(nextUser))

\* the same, for the configurations whose identity_store_id holds no "/"
C12_WhenStoreIdHasNoSep ==
    (last.op = "Create" /\ SepCount(last.cfg.identity_store_id) = 0) =>
        /\ calls # <<>> /\ calls[1].op = "CreateUser"
        /\ CarriesWhatIsSet(calls[1].in, last.cfg)
        /\ (last.outcome = "ok" /\ last.descr = "normal") =>
              /\ ret = RetNil
              /\ StateIsConfiguration(st, last.cfg, UserIdOf(nextUser))

\* a create of a configuration with every optional field and group set was
\* stored as sent and read back equal to the configuration
C12_FullConfigurationReadBack ==
    /\ last.op = "Create" /\ last.outcome = "ok"
    /\ last.cfg.locale = "en" /\ last.cfg.nickname = "J"
    /\ Len(last.cfg.addresses) = 1 /\ Len(last.cfg.emails) = 1
    /\ Len(last.cfg.phone_numbers) = 1
    /\ ret = RetNil
    /\ StateIsConfiguration(st, last.cfg, <<"u">>)

\* a create of a configuration whose identity_store_id holds a "/" was
\* stored as sent, and the read that ended it failed
C12_StoreIdWithSep ==
    /\ last.op = "Create" /\ last.outcome = "ok" /\ last.descr = "normal"
    /\ last.cfg.identity_store_id = <<"d", "/", "d">>
    /\ remote[<<"u">>] # <<>>
    /\ ret = "reading"
    /\ st = EmptyState

\* the identity store rem holds the user the update request of this step
\* addresses
UpdateAddressesUser(rem) ==
    \E u \in DOMAIN rem :
        /\ rem[u] # Nil
        /\ u = st.user_id
        /\ ToIdString(rem[u][1].IdentityStoreId) = last'.cfg.identity_store_id

\* the update call of this step was made and returned an error
UpdateCallFailed ==
    /\ ChangedRows(st, last'.cfg) # {}
    /\ last'.upd = "error" \/ ~UpdateAddressesUser(remote)

\* C13: when Update is not aborted (it produced no operation, or the update
\* call succeeded) the read path is invoked once, after the update call;
\* when the update call returns an error Update returns an updating error,
\* does not invoke the read path, and leaves the state as it was.
C13_UpdateThenRead ==
    [][last'.op = "Update" =>
            IF UpdateCallFailed
            THEN /\ ret' = "updating"
                 /\ ~last'.read
                 /\ CallsTo(calls', "DescribeUser") = {}
                 /\ Len(calls') = 1 /\ calls'[1].op = "UpdateUser"
                 /\ st' = st /\ id' = id /\ remote' = remote
            ELSE /\ last'.read
                 /\ ret' # "updating"
                 /\ Cardinality(CallsTo(calls', "DescribeUser")) <= 1
                 /\ TwoSegments(id) =>
                        /\ Cardinality(CallsTo(calls', "DescribeUser")) = 1
                        /\ calls'[Len(calls')].op = "DescribeUser"
                 /\ \A i \in CallsTo(calls', "UpdateUser") :
                        \A j \in CallsTo(calls', "DescribeUser") : i < j]_vars

\* an update whose call the identity store answered with an error returned
\* the updating error without reading
C13_Witness ==
    /\ last.op = "Update" /\ last.upd = "error"
    /\ ret = "updating"
    /\ ~last.read
    /\ Len(calls) = 1 /\ calls[1].op = "UpdateUser"
    /\ st.nickname # last.cfg.nickname

\* an update whose call succeeded read the user afterwards
C13_ReadAfterUpdate ==
    /\ last.op = "Update" /\ last.read
    /\ Len(calls) = 2
    /\ calls[1].op = "UpdateUser" /\ calls[2].op = "DescribeUser"
    /\ ret = RetNil
    /\ st.nickname = last.cfg.nickname

\* the string keys of a configuration block
BlockStrings(block) == DOMAIN block \ {"primary"}

\* C14: for a changed addresses, emails or phone_numbers group that now has
\* one entry, the operation's value is a list of one field map, keyed by the
\* API's field names: a key with the configured string for each string field
\* that is non-empty, no key for one that is empty, and primary always; the
\* group is sent whole whichever of its fields changed.
C14_WholeGroupValue ==
    [][last'.op = "Update" =>
            \A i \in ChangedRows(st, last'.cfg) :
                LET a == fieldsToUpdate[i].Attribute
                IN  (a \in CompositeAttributes /\ Len(last'.cfg[a]) = 1) =>
                      \E j \in OpsOn(SentOperations(calls'), fieldsToUpdate[i].Field) :
                        LET v == SentOperations(calls')[j].AttributeValue
                            block == last'.cfg[a][1]
                        IN  /\ v.kind = "list"
                            /\ Len(v.v) = 1
                            /\ "primary" \in DOMAIN v.v[1]
                            /\ v.v[1]["primary"] = block["primary"]
                            /\ \A k \in BlockStrings(block) :
                                  IF block[k] # ""
                                  THEN /\ FieldKey(k) \in DOMAIN v.v[1]
                                       /\ v.v[1][FieldKey(k)] = block[k]
                                  ELSE FieldKey(k) \notin DOMAIN v.v[1]
                            /\ DOMAIN v.v[1] \subseteq
                                  {"primary"} \cup
                                  {FieldKey(k) : k \in BlockStrings(block)}]_vars

\* only the postal code of the one address changed: the operation carries
\* the whole address, under the API's names, without a key for the fields
\* left empty
C14_Witness ==
    /\ last.op = "Update"
    /\ SentOperations(calls)
         = <<[AttributePath |-> "addresses",
              AttributeValue |->
                [kind |-> "list",
                 v |-> <<[country |-> "NZ", postalCode |-> "6011",
                          primary |-> FALSE]>>]]>>

\* only the type of the one email changed, to empty: the operation carries
\* the email without a type key
C14_EmailTypeDropped ==
    /\ last.op = "Update"
    /\ SentOperations(calls)
         = <<[AttributePath |-> "emails",
              AttributeValue |->
                [kind |-> "list",
                 v |-> <<[primary |-> FALSE, value |-> "jane@example.com"]>>]]>>

\* the stored user the identifier s addresses in the identity store rem,
\* <<>> when there is none
UserAt(rem, s) ==
    LET us == {u \in DOMAIN rem :
                  /\ rem[u] # Nil
                  /\ Sprintf(ToIdString(rem[u][1].IdentityStoreId), u) = s}
    IN  IF us = {} THEN <<>> ELSE rem[CHOOSE u \in us : TRUE]

\* the (issuer, id) pairs of a stored user's external ids, in their order
ExternalPairs(user) ==
    [i \in 1..Len(user.ExternalIds) |->
        [id |-> awsToString(user.ExternalIds[i].Id),
         issuer |-> awsToString(user.ExternalIds[i].Issuer)]]

\* C15: a refresh that describes a stored user succeeds and stores
\* external_ids as the list of the user's (issuer, id) pairs, in the same
\* order: the pairs of a user that has external ids, the empty list for a
\* user that has none.
C15_ExternalIdsRead ==
    (/\ last.op = "Read" /\ last.descr = "normal"
     /\ TwoSegments(id) /\ UserAt(remote, id) # <<>>) =>
        /\ ret = RetNil
        /\ st.external_ids = ExternalPairs(UserAt(remote, id)[1])

\* the same, for the users that have no external id
C15_WhenNoExternalIds ==
    (/\ last.op = "Read" /\ last.descr = "normal"
     /\ TwoSegments(id) /\ UserAt(remote, id) # <<>>
     /\ UserAt(remote, id)[1].ExternalIds = <<>>) =>
        /\ ret = RetNil
        /\ st.external_ids = <<>>

\* a refresh of a user that has an external id failed in storing it
C15_SettingFails ==
    /\ last.op = "Read" /\ last.descr = "normal"
    /\ id = <<"d", "/", "u">>
    /\ UserAt(remote, id) # <<>>
    /\ UserAt(remote, id)[1].ExternalIds
         = <<[Id |-> <<"ext-1">>, Issuer |-> <<"scim">>]>>
    /\ ret = "setting"
    /\ st.external_ids = <<>>

\* C16: whenever the last handler invoked has returned without error and
\* the identifier is non-empty, the identifier is the state's
\* identity_store_id, a "/" and the state's user_id, so that Delete and
\* Update (which address the user by the state fields) and Read (which
\* addresses it by the parsed identifier) address the same user.
C16_IdMatchesState ==
    (ret = RetNil /\ id # <<>>) =>
        id = st.identity_store_id \o <<"/">> \o st.user_id

\* the same, as long as no Delete has run on the resource since it was
\* created or imported
C16_UnlessDeleteRan ==
    (ret = RetNil /\ id # <<>> /\ last.op \in {"Create", "Read", "Update"}) =>
        id = st.identity_store_id \o <<"/">> \o st.user_id

\* the read that ended a create failed, and a Delete then returned without
\* error having addressed another user than the identifier names
C16_DeleteOfUnreadResource ==
    /\ last.op = "Delete"
    /\ ret = RetNil
    /\ id = <<"d", "/", "u">>
    /\ st.user_id = <<>>
    /\ Len(calls) = 1 /\ calls[1].op = "DeleteUser" /\ calls[1].UserId = <<>>
    /\ remote[<<"u">>] # <<>>

====
